---- MODULE Spec2Model ----
(***************************************************************************)
(* Conductor plugin registry: the credential store shared by the plugins,  *)
(* the Spotify refresh-on-401 fetch helper, the tool table the host        *)
(* dispatches on and loads, the response handling of the fetch helpers,    *)
(* the X plugin's OAuth 1.0a signer and the HomeKit plugin's token cache.  *)
(***************************************************************************)
EXTENDS Integers, Sequences, FiniteSets, TLC

VARIABLES
    keychain,   \* the Secret Store: (service/key) -> value, Absent when unset
    call,       \* the in-flight spotifyFetch calls, one record per slot
    issued,     \* number of token-endpoint responses that issued tokens
    started,    \* number of spotifyFetch calls started so far
    plainOnly,  \* history: some token response so far carried no refresh_token
    inv,        \* the tool invocation the host is dispatching
    invoked,    \* number of invocations dispatched so far
    tokenCache, \* the HomeKit plugin's cached JWT: "none", "fresh" or "stale"
    envelope,   \* a response handed to a fetch helper, and what the helper made of it
    registry,   \* the host's tool registry while the plugins are being loaded
    oauth,      \* a call of the X plugin's OAuth 1.0a signer and its result
    hb,         \* overlapping homebridgeFetch calls of the HomeKit plugin instance
    n8n         \* an n8n handler's work on executions: the poll loop, the listing

\* the variables of the single-function specifications; what the Spotify
\* helper leaves alone; what the dispatcher leaves alone
fVars == <<envelope, registry, oauth, hb, n8n>>
dVars == <<inv, invoked, tokenCache, fVars>>
sVars == <<started, plainOnly>>
vars == <<keychain, call, issued, started, plainOnly, inv, invoked, tokenCache,
          envelope, registry, oauth, hb, n8n>>

-----------------------------------------------------------------------------
(* Bounds of the model *)

NumSlots == 2
MaxCalls == 2
MaxInvocations == 1

-----------------------------------------------------------------------------
(* Secret Store values *)

\* keychain.get resolves to null for a missing record; `!token` tests it
Absent == 0

\* the empty string vercel_set_team stores to clear the team scope
Empty == -1

\* an opaque non-empty value the user configured
Configured == 1

\* JavaScript truthiness of a stored string: null and '' are falsy
Truthy(v) == v # Absent /\ v # Empty

\* the access / refresh token carried by the n-th issuing token response;
\* issue 0 is the interactive authorization that filled the store
AccessOf(n) == 100 + n
RefreshOf(n) == 200 + n

SpotifyKeys == {"spotify/access_token", "spotify/refresh_token", "spotify/client_id"}

GoogleKeys == {"google/access_token"}

XReadKeys == {"x/bearer_token"}

XWriteKeys == {"x/api_key", "x/api_secret", "x/access_token", "x/access_secret"}

HomekitKeys == {"homekit/base_url", "homekit/username", "homekit/password"}

Keys ==
    SpotifyKeys \cup GoogleKeys \cup XReadKeys \cup XWriteKeys \cup HomekitKeys
    \cup {"notion/api_key", "slack/bot_token", "github/token", "n8n/api_key",
          "n8n/base_url", "vercel/token", "vercel/team_id"}

\* the service of a record, the first argument of Keychain.get and Keychain.set
ServiceOf(k) ==
    CASE k \in SpotifyKeys -> "spotify"
      [] k \in GoogleKeys -> "google"
      [] k \in XReadKeys \cup XWriteKeys -> "x"
      [] k \in HomekitKeys -> "homekit"
      [] k = "notion/api_key" -> "notion"
      [] k = "slack/bot_token" -> "slack"
      [] k = "github/token" -> "github"
      [] k \in {"n8n/api_key", "n8n/base_url"} -> "n8n"
      [] k \in {"vercel/token", "vercel/team_id"} -> "vercel"

\* the services named by the fields of a plugin's configSchema; slack, weather,
\* github_actions and gdrive declare no configSchema
DeclaredServices(p) ==
    CASE p \in {"gcal", "gmail"} -> {"google"}
      [] p \in {"notion", "spotify", "x", "vercel", "github", "n8n", "homekit"} -> {p}
      [] OTHER -> {}

\* the value a record holds once the user has configured / authorized it
InitialValue(k) ==
    CASE k = "spotify/access_token" -> AccessOf(0)
      [] k = "spotify/refresh_token" -> RefreshOf(0)
      [] OTHER -> Configured

\* Keychain.get(service, key)
KeychainGet(k) == keychain[k]

\* Keychain.set(service, key, value): the store after the write
KeychainSet(k, v) == [keychain EXCEPT ![k] = v]

-----------------------------------------------------------------------------
(* Spotify: spotifyFetch and refreshToken *)

Slots == 1..NumSlots

\* statuses the Spotify API answers with
ApiStatuses == {200, 204, 401, 500}

\* res.ok
ResOk(status) == status >= 200 /\ status <= 299

\* nothing has been handed to a helper, loaded, or signed
IdleHb == [pc |-> "idle", afterDrop |-> FALSE, signedIn |-> FALSE, sends |-> 0,
           outcome |-> "none"]
Idle ==
    [envelope |-> [helper |-> "none"],
     registry |-> [loaded |-> {}, tools |-> {}, collisions |-> {}],
     oauth |-> [method |-> "none", signed |-> FALSE],
     hb |-> [call |-> [c \in 1..NumSlots |-> IdleHb], dropped |-> FALSE],
     n8n |-> [pc |-> "idle"]]
Unused ==
    /\ envelope = Idle.envelope /\ registry = Idle.registry /\ oauth = Idle.oauth
    /\ hb = Idle.hb /\ n8n = Idle.n8n

IdleInv ==
    [pc |-> "idle", tool |-> 0, path |-> << >>, site |-> 0, sends |-> 0,
     failed |-> "none", bearer |-> Absent, team |-> Absent, approval |-> "none", handler |-> FALSE, http |-> 0,
     outcome |-> "none", teamId |-> Absent, header |-> 0, text |-> 0]

IdleCall ==
    [pc |-> "idle", retry |-> TRUE,
     rtok |-> Absent, data |-> [access |-> Absent, refresh |-> Absent],
     newToken |-> Absent, sent |-> << >>, tokReqs |-> 0, outcome |-> "none",
     \* history: the last API status, whether a 401 started a refresh, and how
     \* the token endpoint answered ("none", "issued", "refused", "threw")
     status |-> 0, got401 |-> FALSE, refresh |-> "none"]

\* a tool handler calls this.spotifyFetch(path, options): retry defaults to
\* true; path, method and body do not steer the helper and are left out
EnterSpotifyFetch(c) ==
    /\ call[c].pc = "idle"
    /\ call' = [call EXCEPT ![c] = [IdleCall EXCEPT !.pc = "start"]]

\* some handler calls spotifyFetch while others may be in flight
SpotifyFetch(c) ==
    /\ started < MaxCalls
    /\ started' = started + 1
    /\ EnterSpotifyFetch(c)
    /\ UNCHANGED <<keychain, issued, plainOnly, dVars>>

\* getToken(): read spotify/access_token, throw when it is missing;
\* otherwise build the URL and issue the API request with that bearer token
GetTokenAndSend(c) ==
    /\ call[c].pc = "start"
    /\ LET token == KeychainGet("spotify/access_token") IN
       IF ~Truthy(token)
       THEN call' = [call EXCEPT ![c].pc = "done", ![c].outcome = "NotAuthenticated"]
       ELSE call' = [call EXCEPT ![c].pc = "api", ![c].sent = Append(@, token),
                                 ![c].status = 0]
    /\ UNCHANGED <<keychain, issued, sVars, dVars>>

\* a refresh branch that forgets the retry budget
ShouldRefresh_IgnoringRetry(status, retry) == status = 401

\* the condition of the auto-refresh branch
ShouldRefresh(status, retry) == status = 401 /\ retry

\* the API answers: 401 with retry left enters refreshToken(), 204/202 yields {},
\* a non-ok status throws, anything else returns res.json()
ApiResponse(c, status) ==
    /\ call[c].pc = "api"
    /\ call' = [call EXCEPT ![c] =
         IF ShouldRefresh(status, call[c].retry)
         THEN [@ EXCEPT !.pc = "rt_refresh", !.status = status, !.got401 = TRUE]
         ELSE IF status = 204 \/ status = 202
         THEN [@ EXCEPT !.pc = "done", !.outcome = "empty", !.status = status]
         ELSE IF ~ResOk(status)
         THEN [@ EXCEPT !.pc = "done", !.outcome = "ApiError", !.status = status]
         ELSE [@ EXCEPT !.pc = "done", !.outcome = "ok", !.status = status]]
    /\ UNCHANGED <<keychain, issued, sVars, dVars>>

\* fetch() rejects (network failure): the exception leaves spotifyFetch
ApiNetworkError(c) ==
    /\ call[c].pc = "api"
    /\ call' = [call EXCEPT ![c].pc = "done", ![c].outcome = "NetworkError"]
    /\ UNCHANGED <<keychain, issued, sVars, dVars>>

\* refreshToken(): first read, spotify/refresh_token
ReadRefreshToken(c) ==
    /\ call[c].pc = "rt_refresh"
    /\ call' = [call EXCEPT ![c].pc = "rt_client",
                            ![c].rtok = KeychainGet("spotify/refresh_token")]
    /\ UNCHANGED <<keychain, issued, sVars, dVars>>

\* a guard that forgets the client id
CanRefresh_RefreshTokenOnly(refreshToken, clientId) == Truthy(refreshToken)

\* the guard of refreshToken(): both records must be there
CanRefresh(refreshToken, clientId) == Truthy(refreshToken) /\ Truthy(clientId)

\* a caller that retries whatever refreshToken returned
OnRefreshResult_AlwaysRetry(newToken) == "start"

\* spotifyFetch after `newToken = await this.refreshToken()`: re-enter with
\* retry = false when a token came back, otherwise throw "refresh failed"
OnRefreshResult(newToken) == IF Truthy(newToken) THEN "start" ELSE "done"

\* the call record once refreshToken has returned newToken
Refreshed(rec, newToken) ==
    LET back == [rec EXCEPT !.rtok = Absent, !.data = IdleCall.data] IN
    IF OnRefreshResult(newToken) = "start"
    THEN [back EXCEPT !.pc = "start", !.newToken = newToken, !.retry = FALSE]
    ELSE [back EXCEPT !.pc = "done", !.outcome = "AuthExpired"]

\* refreshToken(): second read, spotify/client_id; return null when either is
\* missing (spotifyFetch then throws), else POST to the token endpoint (the
\* refresh token that was read is in the request and is not looked at again)
ReadClientIdAndPost(c) ==
    /\ call[c].pc = "rt_client"
    /\ LET clientId == KeychainGet("spotify/client_id") IN
       IF CanRefresh(call[c].rtok, clientId)
       THEN call' = [call EXCEPT ![c].pc = "token", ![c].tokReqs = @ + 1,
                                 ![c].rtok = Absent]
       ELSE call' = [call EXCEPT ![c] = Refreshed(@, Absent)]
    /\ UNCHANGED <<keychain, issued, sVars, dVars>>

\* the token endpoint answers non-2xx, or 2xx without access_token:
\* refreshToken returns null and spotifyFetch throws "refresh failed"
TokenRefused(c) ==
    /\ call[c].pc = "token"
    /\ call' = [call EXCEPT ![c] = Refreshed([@ EXCEPT !.refresh = "refused"], Absent)]
    /\ UNCHANGED <<keychain, issued, sVars, dVars>>

\* fetch() to the token endpoint rejects: the exception leaves spotifyFetch
TokenNetworkError(c) ==
    /\ call[c].pc = "token"
    /\ call' = [call EXCEPT ![c].pc = "done", ![c].outcome = "NetworkError",
                            ![c].refresh = "threw"]
    /\ UNCHANGED <<keychain, issued, sVars, dVars>>

\* the token endpoint answers 2xx with a fresh access_token and, when it
\* rotates, a fresh refresh_token
TokenIssued(c, rotate) ==
    /\ call[c].pc = "token"
    /\ issued' = issued + 1
    /\ plainOnly' = (plainOnly \/ ~rotate)
    /\ UNCHANGED dVars
    /\ call' = [call EXCEPT ![c].pc = "rt_setAccess", ![c].refresh = "issued",
                 ![c].data = [access |-> AccessOf(issued + 1),
                              refresh |-> IF rotate THEN RefreshOf(issued + 1) ELSE Absent]]
    /\ UNCHANGED <<keychain, started, fVars>>

\* a refreshToken that writes refresh_token whatever the response carried
AfterSetAccess_AlwaysRotates(data) == "rt_setRefresh"

\* where refreshToken goes after keychain.set(access_token): on to the
\* refresh_token write when the response carried one, else it returns
AfterSetAccess(data) == IF Truthy(data.refresh) THEN "rt_setRefresh" ELSE "start"

\* keychain.set('spotify', 'access_token', data.access_token)
SetAccessToken(c) ==
    /\ call[c].pc = "rt_setAccess"
    /\ keychain' = KeychainSet("spotify/access_token", call[c].data.access)
    /\ call' = [call EXCEPT ![c] =
         IF AfterSetAccess(call[c].data) = "start"
         THEN Refreshed(@, call[c].data.access)
         ELSE [@ EXCEPT !.pc = "rt_setRefresh"]]
    /\ UNCHANGED <<issued, sVars, dVars>>

\* keychain.set('spotify', 'refresh_token', data.refresh_token); refreshToken
\* returns data.access_token and spotifyFetch re-enters itself with retry = false
SetRefreshToken(c) ==
    /\ call[c].pc = "rt_setRefresh"
    /\ keychain' = KeychainSet("spotify/refresh_token", call[c].data.refresh)
    /\ call' = [call EXCEPT ![c] = Refreshed(@, call[c].data.access)]
    /\ UNCHANGED <<issued, sVars, dVars>>

\* the promise settles and the handler continues; the slot is free again
Return(c) ==
    /\ call[c].pc = "done"
    /\ call' = [call EXCEPT ![c] = IdleCall]
    /\ UNCHANGED <<keychain, issued, sVars, dVars>>

-----------------------------------------------------------------------------
(* The Spotify specification: concurrent spotifyFetch calls on one store *)

SpotifyInit ==
    /\ \E missing \in {{}} \cup {{k} : k \in SpotifyKeys} :
         keychain = [k \in Keys |-> IF k \in missing THEN Absent ELSE InitialValue(k)]
    /\ call = [c \in Slots |-> IdleCall]
    /\ issued = 0
    /\ started = 0
    /\ plainOnly = FALSE
    /\ inv = IdleInv
    /\ invoked = 0
    /\ tokenCache = "none"
    /\ Unused

SpotifyNext ==
    \E c \in Slots :
        \/ SpotifyFetch(c)
        \/ GetTokenAndSend(c)
        \/ \E s \in ApiStatuses : ApiResponse(c, s)
        \/ ApiNetworkError(c)
        \/ ReadRefreshToken(c)
        \/ ReadClientIdAndPost(c)
        \/ TokenRefused(c)
        \/ TokenNetworkError(c)
        \/ \E rotate \in BOOLEAN : TokenIssued(c, rotate)
        \/ SetAccessToken(c)
        \/ SetRefreshToken(c)
        \/ Return(c)

SpotifySpec == SpotifyInit /\ [][SpotifyNext]_vars

\* every step of call c short of starting it and of handing its result back
CallStep(c) ==
    \/ GetTokenAndSend(c)
    \/ \E s \in ApiStatuses : ApiResponse(c, s)
    \/ ApiNetworkError(c)
    \/ ReadRefreshToken(c)
    \/ ReadClientIdAndPost(c)
    \/ TokenRefused(c)
    \/ TokenNetworkError(c)
    \/ \E rotate \in BOOLEAN : TokenIssued(c, rotate)
    \/ SetAccessToken(c)
    \/ SetRefreshToken(c)

\* the event loop runs every continuation whose promise has settled, and every
\* request is answered or fails
SpotifyFairSpec == SpotifySpec /\ \A c \in Slots : WF_vars(CallStep(c))

-----------------------------------------------------------------------------
(* The tools the thirteen plugins return from getTools().  A tool is its name,
   its plugin, its requiresApproval flag and the request sequences its handler
   can walk through (one per branch the inputs and the answers select); a
   request is the helper it goes through, its HTTP method, whether it changes
   remote state, and how the handler takes its failure: "await" lets it
   escape, "catch" swallows it (.catch, Promise.allSettled), "all" is a member
   of a Promise.all that is not its last: the others are still sent and the
   handler fails once the group has been issued *)

Req(h, m, mut) == [helper |-> h, method |-> m, mutates |-> mut, mode |-> "await"]
Get(h) == Req(h, "GET", FALSE)
Caught(site) == [site EXCEPT !.mode = "catch"]
All(site) == [site EXCEPT !.mode = "all"]
Tool(n, p, approval, paths) ==
    [name |-> n, plugin |-> p, requiresApproval |-> approval, variants |-> paths]

GcalTools == <<
    Tool("gcal_list_calendars", "gcal", FALSE, {<<Get("calFetch")>>}),
    Tool("gcal_list_events", "gcal", FALSE, {<<Get("calFetch")>>}),
    Tool("gcal_get_event", "gcal", FALSE, {<<Get("calFetch")>>}),
    Tool("gcal_create_event", "gcal", FALSE, {<<Req("calFetch", "POST", TRUE)>>}),
    Tool("gcal_update_event", "gcal", FALSE, {<<Req("calFetch", "PATCH", TRUE)>>}),
    Tool("gcal_delete_event", "gcal", FALSE, {<<Req("calFetch", "DELETE", TRUE)>>}) >>

GmailTools == <<
    Tool("gmail_list", "gmail", FALSE,
         {<<Get("gmailFetch")>>, <<Get("gmailFetch"), Get("gmailFetch")>>}),
    Tool("gmail_read", "gmail", FALSE, {<<Get("gmailFetch")>>}),
    Tool("gmail_search", "gmail", FALSE,
         {<<Get("gmailFetch")>>, <<Get("gmailFetch"), Get("gmailFetch")>>}),
    Tool("gmail_send", "gmail", FALSE, {<<Req("gmailFetch", "POST", TRUE)>>}),
    Tool("gmail_reply", "gmail", FALSE,
         {<<Get("gmailFetch"), Req("gmailFetch", "POST", TRUE)>>}),
    Tool("gmail_mark_read", "gmail", FALSE, {<<Req("gmailFetch", "POST", TRUE)>>}),
    Tool("gmail_trash", "gmail", FALSE, {<<Req("gmailFetch", "POST", TRUE)>>}) >>

NotionTools == <<
    Tool("notion_search", "notion", FALSE, {<<Req("notionFetch", "POST", FALSE)>>}),
    Tool("notion_get_page", "notion", FALSE, {<<Get("notionFetch")>>}),
    Tool("notion_read_page", "notion", FALSE,
         {<<All(Get("notionFetch")), Get("notionFetch")>>}),
    Tool("notion_create_page", "notion", FALSE, {<<Req("notionFetch", "POST", TRUE)>>}),
    Tool("notion_append_to_page", "notion", FALSE,
         {<<Req("notionFetch", "PATCH", TRUE)>>}),
    Tool("notion_query_database", "notion", FALSE,
         {<<Req("notionFetch", "POST", FALSE)>>}) >>

SlackTools == <<
    Tool("slack_send_message", "slack", TRUE, {<<Req("slackFetch", "POST", TRUE)>>}),
    Tool("slack_channels", "slack", FALSE, {<<Get("slackFetch")>>}),
    Tool("slack_read_channel", "slack", FALSE,
         {<<Get("slackFetch")>>, <<Get("slackFetch"), Get("slackFetch")>>}),
    Tool("slack_search", "slack", FALSE, {<<Get("slackFetch")>>}),
    Tool("slack_users", "slack", FALSE, {<<Get("slackFetch")>>}),
    Tool("slack_add_reaction", "slack", TRUE, {<<Req("slackFetch", "POST", TRUE)>>}) >>

SpotifyTools == <<
    Tool("spotify_now_playing", "spotify", FALSE, {<<Get("spotifyFetch")>>}),
    Tool("spotify_search", "spotify", FALSE, {<<Get("spotifyFetch")>>}),
    Tool("spotify_play", "spotify", FALSE,
         {<<Req("spotifyFetch", "PUT", TRUE), Caught(Get("spotifyFetch"))>>,
          <<Get("spotifyFetch")>>,
          <<Get("spotifyFetch"), Req("spotifyFetch", "PUT", TRUE),
            Caught(Get("spotifyFetch"))>>}),
    Tool("spotify_pause", "spotify", FALSE, {<<Req("spotifyFetch", "PUT", TRUE)>>}),
    Tool("spotify_skip", "spotify", FALSE,
         {<<Req("spotifyFetch", "POST", TRUE), Caught(Get("spotifyFetch"))>>}),
    Tool("spotify_volume", "spotify", FALSE, {<<Req("spotifyFetch", "PUT", TRUE)>>}),
    Tool("spotify_queue", "spotify", FALSE,
         {<< >>, <<Req("spotifyFetch", "POST", TRUE)>>, <<Get("spotifyFetch")>>,
          <<Get("spotifyFetch"), Req("spotifyFetch", "POST", TRUE)>>}),
    Tool("spotify_playlists", "spotify", FALSE, {<<Get("spotifyFetch")>>}),
    Tool("spotify_playlist_tracks", "spotify", FALSE, {<<Get("spotifyFetch")>>}),
    Tool("spotify_top_tracks", "spotify", FALSE, {<<Get("spotifyFetch")>>}),
    Tool("spotify_recommendations", "spotify", FALSE,
         {<<Get("spotifyFetch")>>, <<Get("spotifyFetch"), Get("spotifyFetch")>>}),
    Tool("spotify_devices", "spotify", FALSE, {<<Get("spotifyFetch")>>}),
    Tool("spotify_shuffle", "spotify", FALSE, {<<Req("spotifyFetch", "PUT", TRUE)>>}),
    Tool("spotify_recently_played", "spotify", FALSE, {<<Get("spotifyFetch")>>}) >>

\* a weather plugin that calls its forecast tool by an unprefixed name that
\* the Google Calendar plugin also uses
WeatherTools_Unprefixed == <<
    Tool("weather_current", "weather", FALSE, {<<Get("geocode"), Get("fetch")>>}),
    Tool("gcal_list_events", "weather", FALSE, {<<Get("geocode"), Get("fetch")>>}) >>

WeatherTools == <<
    Tool("weather_current", "weather", FALSE, {<<Get("geocode"), Get("fetch")>>}),
    Tool("weather_forecast", "weather", FALSE, {<<Get("geocode"), Get("fetch")>>}) >>

\* an X tool table in which deleting a tweet asks nobody
XTools_DeleteUnapproved == <<
    Tool("x_search", "x", FALSE, {<<Get("xFetch")>>}),
    Tool("x_get_user", "x", FALSE, {<<Get("xFetch")>>}),
    Tool("x_get_timeline", "x", FALSE,
         {<<Get("xFetch")>>, <<Get("xFetch"), Get("xFetch")>>}),
    Tool("x_post_tweet", "x", TRUE, {<< >>, <<Req("xPost", "POST", TRUE)>>}),
    Tool("x_delete_tweet", "x", FALSE, {<<Req("fetch", "DELETE", TRUE)>>}),
    Tool("x_like_tweet", "x", TRUE, {<<Req("xPost", "POST", TRUE)>>}) >>

XTools == <<
    Tool("x_search", "x", FALSE, {<<Get("xFetch")>>}),
    Tool("x_get_user", "x", FALSE, {<<Get("xFetch")>>}),
    Tool("x_get_timeline", "x", FALSE,
         {<<Get("xFetch")>>, <<Get("xFetch"), Get("xFetch")>>}),
    Tool("x_post_tweet", "x", TRUE, {<< >>, <<Req("xPost", "POST", TRUE)>>}),
    Tool("x_delete_tweet", "x", TRUE, {<<Req("fetch", "DELETE", TRUE)>>}),
    Tool("x_like_tweet", "x", TRUE, {<<Req("xPost", "POST", TRUE)>>}) >>

GithubTools == <<
    Tool("github_user", "github", FALSE, {<<Get("ghFetch")>>}),
    Tool("github_repo", "github", FALSE, {<<Get("ghFetch")>>}),
    Tool("github_repos", "github", FALSE, {<<Get("ghFetch")>>}),
    Tool("github_trending", "github", FALSE, {<<Get("ghFetch")>>}) >>

N8nTools == <<
    Tool("n8n_workflows", "n8n", FALSE, {<<Get("n8nFetch")>>}),
    Tool("n8n_workflow", "n8n", FALSE, {<<Get("n8nFetch")>>}),
    Tool("n8n_activate", "n8n", FALSE, {<<Req("n8nFetch", "PATCH", TRUE)>>}),
    Tool("n8n_trigger", "n8n", FALSE,
         {<<Get("n8nFetch"), Get("getConfig"), Req("webhookFetch", "POST", TRUE)>>,
          <<Get("n8nFetch"), Req("n8nFetch", "POST", TRUE)>>,
          <<Get("n8nFetch"), Req("n8nFetch", "POST", TRUE), Caught(Get("n8nFetch"))>>}),
    Tool("n8n_webhook", "n8n", FALSE,
         {<<Req("webhookFetch", "POST", TRUE)>>,
          <<Get("getConfig"), Req("webhookFetch", "POST", TRUE)>>}),
    Tool("n8n_executions", "n8n", FALSE, {<<Get("n8nFetch")>>}),
    Tool("n8n_execution", "n8n", FALSE, {<<Get("n8nFetch")>>}),
    Tool("n8n_retry", "n8n", FALSE, {<<Req("n8nFetch", "POST", TRUE)>>}),
    Tool("n8n_delete_execution", "n8n", FALSE, {<<Req("n8nFetch", "DELETE", TRUE)>>}),
    Tool("n8n_credentials", "n8n", FALSE, {<<Get("n8nFetch")>>}),
    Tool("n8n_tags", "n8n", FALSE, {<<Get("n8nFetch")>>}),
    Tool("n8n_health", "n8n", FALSE,
         {<<Caught(Get("n8nFetch")), Caught(Get("n8nFetch")), Get("getConfig")>>}) >>

HomekitTools == <<
    Tool("homekit_status", "homekit", FALSE,
         {<<Caught(Get("homebridgeFetch")), Caught(Get("homebridgeFetch")),
            Get("getCredentials")>>}),
    Tool("homekit_accessories", "homekit", FALSE, {<<Get("homebridgeFetch")>>}),
    Tool("homekit_get_accessory", "homekit", FALSE, {<<Get("homebridgeFetch")>>}),
    Tool("homekit_set", "homekit", TRUE,
         {<<Req("homebridgeFetch", "PUT", TRUE), Get("homebridgeFetch")>>}),
    Tool("homekit_toggle", "homekit", TRUE,
         {<<Get("homebridgeFetch")>>,
          <<Get("homebridgeFetch"), Req("homebridgeFetch", "PUT", TRUE)>>}),
    Tool("homekit_rooms", "homekit", FALSE, {<<Get("homebridgeFetch")>>}) >>

GithubActionsTools == <<
    Tool("gh_my_repos", "github_actions", FALSE, {<<Get("ghFetch")>>}),
    Tool("gh_workflow_runs", "github_actions", FALSE, {<<Get("ghFetch")>>}),
    Tool("gh_run_status", "github_actions", FALSE,
         {<<All(Get("ghFetch")), Get("ghFetch")>>}),
    Tool("gh_trigger_workflow", "github_actions", FALSE,
         {<<Req("ghFetch", "POST", TRUE), Get("ghFetch")>>}),
    Tool("gh_cancel_run", "github_actions", FALSE, {<<Req("ghFetch", "POST", TRUE)>>}),
    Tool("gh_list_prs", "github_actions", FALSE, {<<Get("ghFetch")>>}),
    Tool("gh_create_pr", "github_actions", FALSE, {<<Req("ghFetch", "POST", TRUE)>>}),
    Tool("gh_merge_pr", "github_actions", FALSE, {<<Req("ghFetch", "PUT", TRUE)>>}),
    Tool("gh_list_issues", "github_actions", FALSE, {<<Get("ghFetch")>>}),
    Tool("gh_create_issue", "github_actions", FALSE, {<<Req("ghFetch", "POST", TRUE)>>}),
    Tool("gh_comment", "github_actions", FALSE, {<<Req("ghFetch", "POST", TRUE)>>}),
    Tool("gh_releases", "github_actions", FALSE, {<<Get("ghFetch")>>}),
    Tool("gh_create_release", "github_actions", FALSE,
         {<<Req("ghFetch", "POST", TRUE)>>}),
    Tool("gh_notifications", "github_actions", FALSE, {<<Get("ghFetch")>>}),
    Tool("gh_code_search", "github_actions", FALSE, {<<Get("ghFetch")>>}) >>

GdriveTools == <<
    Tool("gdrive_list", "gdrive", FALSE, {<<Get("driveFetch")>>}),
    Tool("gdrive_search", "gdrive", FALSE, {<<Get("driveFetch")>>}),
    Tool("gdrive_get", "gdrive", FALSE, {<<Get("driveFetch")>>}),
    Tool("gdrive_read", "gdrive", FALSE,
         {<<Get("driveFetch")>>, <<Get("driveFetch"), Get("driveFetch")>>}),
    Tool("gdrive_create_folder", "gdrive", FALSE, {<<Req("driveFetch", "POST", TRUE)>>}),
    Tool("gdrive_upload_text", "gdrive", FALSE, {<<Req("fetch", "POST", TRUE)>>}),
    Tool("gdrive_delete", "gdrive", FALSE, {<<Req("driveFetch", "DELETE", TRUE)>>}) >>

VercelTools == <<
    Tool("vercel_projects", "vercel", FALSE, {<<Get("vercelFetch")>>}),
    Tool("vercel_project", "vercel", FALSE, {<<Get("vercelFetch")>>}),
    Tool("vercel_deployments", "vercel", FALSE, {<<Get("vercelFetch")>>}),
    Tool("vercel_deployment", "vercel", FALSE, {<<Get("vercelFetch")>>}),
    Tool("vercel_redeploy", "vercel", FALSE, {<<Req("vercelFetch", "POST", TRUE)>>}),
    Tool("vercel_cancel", "vercel", FALSE, {<<Req("vercelFetch", "PATCH", TRUE)>>}),
    Tool("vercel_logs", "vercel", FALSE, {<<Get("vercelFetch")>>}),
    Tool("vercel_env_list", "vercel", FALSE, {<<Get("vercelFetch")>>}),
    Tool("vercel_env_add", "vercel", FALSE, {<<Req("vercelFetch", "POST", TRUE)>>}),
    Tool("vercel_env_delete", "vercel", FALSE, {<<Req("vercelFetch", "DELETE", TRUE)>>}),
    Tool("vercel_domains", "vercel", FALSE, {<<Get("vercelFetch")>>}),
    Tool("vercel_add_domain", "vercel", FALSE, {<<Req("vercelFetch", "POST", TRUE)>>}),
    Tool("vercel_team_info", "vercel", FALSE, {<<Get("getAuth"), Get("vercelFetch")>>}),
    Tool("vercel_set_team", "vercel", FALSE, {<<Req("keychain.set", "none", FALSE)>>}) >>

\* every tool the registry holds once all plugins are loaded
AllTools ==
    GcalTools \o GmailTools \o NotionTools \o SlackTools \o SpotifyTools \o WeatherTools
    \o XTools \o GithubTools \o N8nTools \o HomekitTools \o GithubActionsTools
    \o GdriveTools \o VercelTools

ToolIds == 1..Len(AllTools)

\* the tools a plugin's getTools() returns
ToolsOf(p) == {i \in ToolIds : AllTools[i].plugin = p}

-----------------------------------------------------------------------------
(* What the request helpers of the plugins need and do *)

\* helpers that ask the keychain for nothing before they send
HelperKeys_NothingRequired(p, h) == {}

\* the keychain records a helper reads and insists on before it sends anything
HelperKeys(p, h) ==
    CASE h \in {"gmailFetch", "calFetch", "driveFetch"} -> GoogleKeys
      [] p = "gdrive" /\ h = "fetch" -> GoogleKeys
      [] h = "notionFetch" -> {"notion/api_key"}
      [] h = "slackFetch" -> {"slack/bot_token"}
      [] h = "spotifyFetch" -> {"spotify/access_token"}
      [] h = "xFetch" -> XReadKeys
      [] h = "xPost" -> XWriteKeys
      [] p = "x" /\ h = "fetch" -> XWriteKeys
      [] p = "github_actions" /\ h = "ghFetch" -> {"github/token"}
      [] h \in {"n8nFetch", "getConfig"} -> {"n8n/api_key"}
      [] h \in {"homebridgeFetch", "getCredentials"} -> HomekitKeys
      [] h \in {"vercelFetch", "getAuth"} -> {"vercel/token"}
      [] OTHER -> {}

\* a helper that looks its bearer token up under another plugin's record
BearerKey_TakesAnotherRecord(p, h) ==
    CASE h \in {"gmailFetch", "calFetch"} -> "google/access_token"
      [] p = "gdrive" /\ h \in {"driveFetch", "fetch"} -> "github/token"
      [] OTHER -> "none"

\* a ghFetch that is handed the stored token by every caller
BearerKey_GithubSendsToken(p, h) ==
    IF h = "ghFetch" THEN "github/token" ELSE "none"

\* the record whose value a helper sends as `Authorization: Bearer <value>`
BearerKey(p, h) ==
    CASE h \in {"gmailFetch", "calFetch", "driveFetch"} -> "google/access_token"
      [] p = "gdrive" /\ h = "fetch" -> "google/access_token"
      [] h = "notionFetch" -> "notion/api_key"
      [] h = "slackFetch" -> "slack/bot_token"
      [] h = "xFetch" -> "x/bearer_token"
      [] p = "github_actions" /\ h = "ghFetch" -> "github/token"
      [] h = "vercelFetch" -> "vercel/token"
      [] OTHER -> "none"

\* getConfig, getAuth and getCredentials only read the keychain;
\* vercel_set_team only writes it
SendsHttp(h) == h \notin {"getConfig", "getAuth", "getCredentials", "keychain.set"}

\* xFetch and xPost hand their request to withRetry
UsesWithRetry(p, h) == p = "x" /\ h \in {"xFetch", "xPost"}

\* how many times withRetry runs its callback before it gives up
RetryMaxAttempts == 2

\* withRetry runs the callback again after a transient failure (a 5xx answer
\* or a network failure, status 0) while attempts are left
WithRetryRetries(status, attempts) ==
    (status = 0 \/ status >= 500) /\ attempts < RetryMaxAttempts

\* a plugin that refuses to run without its credentials
IsConfigured_ChecksCredentials(p) ==
    \A i \in ToolIds : AllTools[i].plugin = p =>
        \A path \in AllTools[i].variants : \A j \in 1..Len(path) :
            \A k \in HelperKeys(p, path[j].helper) : Truthy(keychain[k])

\* isConfigured() of every plugin: `return true`, credentials are looked at
\* when a tool is called
IsConfigured(p) == TRUE

-----------------------------------------------------------------------------
(* One tool invocation travelling through the host's dispatcher and the
   tool's handler *)

TheTool == AllTools[inv.tool]
TheSite == inv.path[inv.site]

\* the handler is through with its current request: on to the next one, or out
SiteEnd(rec, failure) ==
    LET site == rec.path[rec.site]
        failed == IF rec.failed # "none" THEN rec.failed ELSE failure
        next == [rec EXCEPT !.pc = "site", !.site = @ + 1, !.sends = 0,
                            !.bearer = Absent, !.teamId = Absent, !.header = 0]
    IN  CASE site.mode = "catch" -> next
          [] site.mode = "all" -> [next EXCEPT !.failed = failed]
          [] OTHER -> IF failed = "none" THEN next
                      ELSE [rec EXCEPT !.pc = "done", !.outcome = failed,
                                       !.bearer = Absent, !.teamId = Absent,
                                       !.header = 0]

\* invoke(tool, args) reaches the dispatcher; 0 stands for a name no plugin has
InvokeWithin(t, limit) ==
    /\ inv.pc = "idle"
    /\ invoked < limit
    /\ invoked' = invoked + 1
    /\ inv' = [IdleInv EXCEPT !.pc = "resolve", !.tool = t]
    /\ UNCHANGED <<keychain, call, issued, sVars, tokenCache, fVars>>

Invoke(t) == InvokeWithin(t, MaxInvocations)

\* dispatch step 1: resolve the tool
Resolve ==
    /\ inv.pc = "resolve"
    /\ inv' = IF inv.tool \in ToolIds
              THEN [inv EXCEPT !.pc = "configured"]
              ELSE [inv EXCEPT !.pc = "done", !.outcome = "NoSuchTool"]
    /\ UNCHANGED <<keychain, call, issued, sVars, tokenCache, invoked, fVars>>

\* dispatch step 2: ask the plugin whether it is configured
CheckConfigured ==
    /\ inv.pc = "configured"
    /\ inv' = IF IsConfigured(TheTool.plugin)
              THEN [inv EXCEPT !.pc = "validate"]
              ELSE [inv EXCEPT !.pc = "done", !.outcome = "NotConfigured"]
    /\ UNCHANGED <<keychain, call, issued, sVars, tokenCache, invoked, fVars>>

\* dispatch step 3: validate the arguments against the input schema
Validate(valid) ==
    /\ inv.pc = "validate"
    /\ inv' = IF ~valid THEN [inv EXCEPT !.pc = "done", !.outcome = "InvalidArgument"]
              ELSE IF TheTool.requiresApproval THEN [inv EXCEPT !.pc = "approval"]
              ELSE [inv EXCEPT !.pc = "invoke"]
    /\ UNCHANGED <<keychain, call, issued, sVars, tokenCache, invoked, fVars>>

\* dispatch step 4: the approval callback answers
Approval(granted) ==
    /\ inv.pc = "approval"
    /\ inv' = IF granted
              THEN [inv EXCEPT !.pc = "invoke", !.approval = "approved"]
              ELSE [inv EXCEPT !.pc = "done", !.approval = "denied",
                               !.outcome = "Denied"]
    /\ UNCHANGED <<keychain, call, issued, sVars, tokenCache, invoked, fVars>>

\* x_post_tweet: if (text.length > 280) return { error: ... }; the length is
\* the string's length in UTF-16 code units
MaxTweetLength == 280
TweetTooLong_From280(length) == length >= MaxTweetLength
TweetTooLong(length) == length > MaxTweetLength

\* dispatch step 5: the handler is called; its inputs and the answers it gets
\* select the branch it walks; x_post_tweet walks the branch without a
\* request exactly when its text is too long
HandlerStart ==
    /\ inv.pc = "invoke"
    /\ \E path \in TheTool.variants :
       \E length \in {MaxTweetLength - 1, MaxTweetLength, MaxTweetLength + 1} :
         /\ TheTool.name = "x_post_tweet" => (TweetTooLong(length) <=> path = << >>)
         /\ inv' = [inv EXCEPT !.pc = "site", !.handler = TRUE, !.path = path,
                               !.site = 1,
                               !.text = IF TheTool.name = "x_post_tweet"
                                        THEN length ELSE 0]
    /\ UNCHANGED <<keychain, call, issued, sVars, tokenCache, invoked, fVars>>

\* the handler has no request left and returns its payload
HandlerReturn ==
    /\ inv.pc = "site"
    /\ inv.site > Len(inv.path)
    /\ inv' = [inv EXCEPT !.pc = "done", !.outcome = "ok"]
    /\ UNCHANGED <<keychain, call, issued, sVars, tokenCache, invoked, fVars>>

\* the handler stands before its next request, which goes through helper h
AtSite(helpers) ==
    /\ inv.pc = "site"
    /\ inv.site <= Len(inv.path)
    /\ TheSite.helper \in helpers

PlainHelpers ==
    {"gmailFetch", "calFetch", "driveFetch", "fetch", "notionFetch", "slackFetch",
     "xFetch", "xPost", "ghFetch", "n8nFetch", "getConfig", "webhookFetch",
     "vercelFetch", "getAuth", "geocode", "getCredentials"}

\* what a helper throws for a response that is not ok
HelperFailure(h, status) ==
    IF status = 401 /\ h \in {"gmailFetch", "calFetch", "driveFetch"}
    THEN "AuthExpired"
    ELSE IF status = 401 /\ h = "homebridgeFetch" THEN "SessionExpired"
    ELSE "ApiError"

\* the value of the Authorization header a helper builds, Absent when it
\* sends no bearer token from the keychain
Bearer(p, h) ==
    IF BearerKey(p, h) = "none" THEN Absent ELSE KeychainGet(BearerKey(p, h))

\* what getAuth returns as teamId: the stored vercel/team_id as it is; the
\* other helpers read no team id
TeamIdRead(h) ==
    IF h \in {"getAuth", "vercelFetch"} THEN KeychainGet("vercel/team_id") ELSE inv.team

\* vercelFetch: if (teamId) url.searchParams.set('teamId', teamId); Absent
\* stands for a URL without the parameter
TeamIdParam_Unconditional(h, teamId) == IF h = "vercelFetch" THEN teamId ELSE Absent
TeamIdParam(h, teamId) == IF h = "vercelFetch" /\ Truthy(teamId) THEN teamId ELSE Absent

\* the Authorization header withRetry's callback sends on a later attempt:
\* xPost builds authHeader once, before withRetry, and the callback closes
\* over it; `fresh` is what a new call of buildOAuthHeader would produce
ResentHeader_SignedAgain(header, fresh) == fresh
ResentHeader(header, fresh) == header

\* a helper reads its credentials, throws when one is missing, and otherwise
\* sends its request; xPost signs it first, with a nonce and a timestamp
\* (two values stand for what the random source and the clock can give)
HelperSend ==
    /\ AtSite(PlainHelpers)
    /\ \E fresh \in {1, 2} :
        LET h == TheSite.helper
            missing == \E k \in HelperKeys(TheTool.plugin, h) : ~Truthy(KeychainGet(k))
            read == [inv EXCEPT !.team = TeamIdRead(h)]
        IN  inv' = IF missing THEN SiteEnd(inv, "ConfigError")
                   ELSE IF ~SendsHttp(h) THEN SiteEnd(read, "none")
                   ELSE [read EXCEPT !.pc = "wait", !.sends = 1, !.http = @ + 1,
                                     !.bearer = Bearer(TheTool.plugin, h),
                                     !.teamId = TeamIdParam(h, TeamIdRead(h)),
                                     !.header = IF h = "xPost" THEN fresh ELSE 0]
    /\ UNCHANGED <<keychain, call, issued, sVars, tokenCache, invoked, fVars>>

\* a homebridgeFetch that keeps its cached token whatever the answer
DropsToken_Never(h, status) == FALSE

\* a 401 to any plugin's request empties the HomeKit cache
DropsToken_OnAny401(h, status) == status = 401

\* homebridgeFetch on 401: this.cachedToken = null
DropsToken(h, status) == h = "homebridgeFetch" /\ status = 401

\* the request is answered; withRetry sends it again after a transient failure;
\* homebridgeFetch drops its cached token on 401
HelperResponse(status) ==
    /\ inv.pc = "wait"
    /\ LET h == TheSite.helper IN
       /\ \E fresh \in {1, 2} :
          inv' = IF ResOk(status) THEN SiteEnd(inv, "none")
                 ELSE IF UsesWithRetry(TheTool.plugin, h)
                         /\ WithRetryRetries(status, inv.sends)
                 THEN [inv EXCEPT !.sends = @ + 1, !.http = @ + 1,
                                  !.header = IF h = "xPost"
                                             THEN ResentHeader(@, fresh) ELSE 0]
                 ELSE SiteEnd(inv, HelperFailure(h, status))
       /\ tokenCache' = IF DropsToken(h, status) THEN "none" ELSE tokenCache
    /\ UNCHANGED <<keychain, call, issued, sVars, invoked, fVars>>

\* fetch() rejects; withRetry sends the request again while attempts are left
HelperNetworkError ==
    /\ inv.pc = "wait"
    /\ \E fresh \in {1, 2} :
       inv' = IF UsesWithRetry(TheTool.plugin, TheSite.helper)
                 /\ WithRetryRetries(0, inv.sends)
              THEN [inv EXCEPT !.sends = @ + 1, !.http = @ + 1,
                               !.header = IF TheSite.helper = "xPost"
                                          THEN ResentHeader(@, fresh) ELSE 0]
              ELSE SiteEnd(inv, "NetworkError")
    /\ UNCHANGED <<keychain, call, issued, sVars, tokenCache, invoked, fVars>>

\* a Spotify handler calls this.spotifyFetch(...)
SpotifySite ==
    /\ AtSite({"spotifyFetch"})
    /\ EnterSpotifyFetch(1)
    /\ inv' = [inv EXCEPT !.pc = "spotify"]
    /\ UNCHANGED <<keychain, issued, sVars, tokenCache, invoked, fVars>>

\* spotifyFetch returns or throws into the handler
SpotifySiteReturn ==
    /\ inv.pc = "spotify"
    /\ call[1].pc = "done"
    /\ inv' = SiteEnd([inv EXCEPT !.http = @ + Len(call[1].sent) + call[1].tokReqs],
                      IF call[1].outcome \in {"ok", "empty"} THEN "none"
                      ELSE call[1].outcome)
    /\ call' = [call EXCEPT ![1] = IdleCall]
    /\ UNCHANGED <<keychain, issued, sVars, tokenCache, invoked, fVars>>

\* getToken: if (this.cachedToken && Date.now() < this.tokenExpiry - 5 * 60 * 1000)
\* return this.cachedToken; "fresh" is a cached token with more than five
\* minutes left, "stale" one with less, "none" an empty cache
UsesCachedToken_UntilDropped(cache) == cache # "none"
UsesCachedToken(cache) == cache = "fresh"

\* homebridgeFetch: getCredentials(), then getToken(): a cached token that has
\* more than five minutes left is used as it is, otherwise the plugin signs in
HomebridgeFetch ==
    /\ AtSite({"homebridgeFetch"})
    /\ LET missing == \E k \in HomekitKeys : ~Truthy(KeychainGet(k)) IN
       inv' = IF missing THEN SiteEnd(inv, "ConfigError")
              ELSE IF UsesCachedToken(tokenCache)
              THEN [inv EXCEPT !.pc = "wait", !.sends = 1, !.http = @ + 1]
              ELSE [inv EXCEPT !.pc = "signin", !.http = @ + 1]
    /\ UNCHANGED <<keychain, call, issued, sVars, tokenCache, invoked, fVars>>

\* POST /api/auth/sign-in is answered: an ok answer with an access_token fills
\* the cache and the API request goes out, anything else throws
SignInResponse(status, hasToken) ==
    /\ inv.pc = "signin"
    /\ IF ResOk(status) /\ hasToken
       THEN /\ tokenCache' = "fresh"
            /\ inv' = [inv EXCEPT !.pc = "wait", !.sends = 1, !.http = @ + 1]
       ELSE /\ tokenCache' = tokenCache
            /\ inv' = SiteEnd(inv, "AuthFailed")
    /\ UNCHANGED <<keychain, call, issued, sVars, invoked, fVars>>

SignInNetworkError ==
    /\ inv.pc = "signin"
    /\ inv' = SiteEnd(inv, "NetworkError")
    /\ UNCHANGED <<keychain, call, issued, sVars, tokenCache, invoked, fVars>>

\* time passes and the cached token comes within five minutes of its expiry
ClockAdvances ==
    /\ tokenCache = "fresh"
    /\ tokenCache' = "stale"
    /\ UNCHANGED <<keychain, call, issued, sVars, inv, invoked, fVars>>

\* a vercel_set_team that leaves the stored team id alone when it is asked to
\* clear it
TeamIdStored_ClearKeepsOld(teamId) ==
    IF Truthy(teamId) THEN teamId ELSE KeychainGet("vercel/team_id")

\* the value vercel_set_team hands to keychain.set: the team id, or '' to clear
TeamIdStored(teamId) == IF Truthy(teamId) THEN teamId ELSE Empty

\* vercel_set_team: the handler writes vercel/team_id and returns the team id
\* it was given, null (Absent) when that was empty
VercelSetTeam(teamId) ==
    /\ AtSite({"keychain.set"})
    /\ keychain' = KeychainSet("vercel/team_id", TeamIdStored(teamId))
    /\ inv' = SiteEnd([inv EXCEPT !.team = IF Truthy(teamId) THEN teamId ELSE Absent],
                      "none")
    /\ UNCHANGED <<call, issued, sVars, tokenCache, invoked, fVars>>

\* the dispatcher hands the result or the error to the caller
Complete ==
    /\ inv.pc = "done"
    /\ inv' = IdleInv
    /\ UNCHANGED <<keychain, call, issued, sVars, tokenCache, invoked, fVars>>

\* the plugins are loaded and no tool is running; the keychain holds every
\* record, or every record but one
Init ==
    /\ \E missing \in {{}} \cup {{k} : k \in Keys} :
         keychain = [k \in Keys |-> IF k \in missing THEN Absent ELSE InitialValue(k)]
    /\ call = [c \in Slots |-> IdleCall]
    /\ issued = 0
    /\ started = 0
    /\ plainOnly = FALSE
    /\ inv = IdleInv
    /\ invoked = 0
    /\ tokenCache = "none"
    /\ Unused

Next ==
    \/ \E t \in ToolIds \cup {0} : Invoke(t)
    \/ Resolve
    \/ CheckConfigured
    \/ \E valid \in BOOLEAN : Validate(valid)
    \/ \E granted \in BOOLEAN : Approval(granted)
    \/ HandlerStart
    \/ HandlerReturn
    \/ HelperSend
    \/ \E status \in ApiStatuses : HelperResponse(status)
    \/ HelperNetworkError
    \/ SpotifySite
    \/ CallStep(1)
    \/ SpotifySiteReturn
    \/ HomebridgeFetch
    \/ \E status \in ApiStatuses, hasToken \in BOOLEAN : SignInResponse(status, hasToken)
    \/ SignInNetworkError
    \/ ClockAdvances
    \/ \E teamId \in {Configured, Empty} : VercelSetTeam(teamId)
    \/ Complete

Spec == Init /\ [][Next]_vars

-----------------------------------------------------------------------------
(* The three Google plugins and the record they share *)

\* a second value for a record: the token the next `conductor auth` stores
Reissued == 2

\* the host sets or deletes a Secret Store record (the store's set and delete
\* of the (get, set, delete, list) contract)
StoreSet(k, v) ==
    /\ keychain[k] # v
    /\ keychain' = KeychainSet(k, v)
    /\ UNCHANGED <<call, issued, sVars, dVars>>

StoreDelete(k) ==
    /\ keychain[k] # Absent
    /\ keychain' = KeychainSet(k, Absent)
    /\ UNCHANGED <<call, issued, sVars, dVars>>

GoogleNext ==
    \/ \E t \in ToolsOf("gmail") \cup ToolsOf("gcal") \cup ToolsOf("gdrive") : Invoke(t)
    \/ Resolve
    \/ CheckConfigured
    \/ \E valid \in BOOLEAN : Validate(valid)
    \/ HandlerStart
    \/ HandlerReturn
    \/ HelperSend
    \/ \E status \in ApiStatuses : HelperResponse(status)
    \/ HelperNetworkError
    \/ Complete
    \/ \E v \in {Configured, Reissued} : StoreSet("google/access_token", v)
    \/ StoreDelete("google/access_token")

GoogleSpec == Init /\ [][GoogleNext]_vars

-----------------------------------------------------------------------------
(* The Vercel plugin and its team scope *)

MaxVercelCalls == 2

VercelNext ==
    \/ \E t \in ToolsOf("vercel") : InvokeWithin(t, MaxVercelCalls)
    \/ Resolve
    \/ CheckConfigured
    \/ \E valid \in BOOLEAN : Validate(valid)
    \/ HandlerStart
    \/ HandlerReturn
    \/ HelperSend
    \/ \E status \in ApiStatuses : HelperResponse(status)
    \/ HelperNetworkError
    \/ \E teamId \in {Configured, Reissued, Empty} : VercelSetTeam(teamId)
    \/ StoreDelete("vercel/team_id")
    \/ Complete

VercelSpec == Init /\ [][VercelNext]_vars

-----------------------------------------------------------------------------
(* Overlapping homebridgeFetch calls on the one token cache of the HomeKit
   plugin instance: homekit_status starts two at once, and invocations of
   different tools interleave *)

\* no tool is running and every record is stored
Quiet ==
    /\ keychain = [k \in Keys |-> InitialValue(k)]
    /\ call = [c \in Slots |-> IdleCall]
    /\ issued = 0
    /\ started = 0
    /\ plainOnly = FALSE
    /\ inv = IdleInv
    /\ invoked = 0
    /\ tokenCache = "none"

\* the host has started: nothing is running, loaded or answered yet
AtRest == Quiet /\ Unused

\* homebridgeFetch is called and reaches getToken: with a usable cached token
\* the API request goes out, otherwise the sign-in request does.  The call
\* notes whether it is the first one since a 401 emptied the cache
HbStart(c) ==
    /\ hb.call[c].pc = "idle"
    /\ hb' = [hb EXCEPT !.dropped = FALSE,
                        !.call[c] = IF UsesCachedToken(tokenCache)
                                    THEN [IdleHb EXCEPT !.pc = "wait", !.sends = 1,
                                                        !.afterDrop = hb.dropped]
                                    ELSE [IdleHb EXCEPT !.pc = "signin",
                                                        !.afterDrop = hb.dropped]]
    /\ UNCHANGED <<keychain, call, issued, sVars, inv, invoked, tokenCache,
                   envelope, registry, oauth, n8n>>

\* getToken: the sign-in is answered; an ok answer with an access_token fills
\* the cache and the API request goes out, anything else throws
HbSignInResponse(c, ok) ==
    /\ hb.call[c].pc = "signin"
    /\ IF ok
       THEN /\ tokenCache' = "fresh"
            /\ hb' = [hb EXCEPT !.call[c].pc = "wait", !.call[c].signedIn = TRUE,
                                !.call[c].sends = 1]
       ELSE /\ tokenCache' = tokenCache
            /\ hb' = [hb EXCEPT !.call[c].pc = "done", !.call[c].outcome = "AuthFailed"]
    /\ UNCHANGED <<keychain, call, issued, sVars, inv, invoked, envelope, registry, oauth,
                   n8n>>

\* the API request is answered: 401 empties the cache and throws, any other
\* answer that is not ok throws, an ok answer is returned
HbResponse(c, status) ==
    /\ hb.call[c].pc = "wait"
    /\ tokenCache' = IF DropsToken("homebridgeFetch", status) THEN "none" ELSE tokenCache
    /\ hb' = [hb EXCEPT
                !.dropped = @ \/ DropsToken("homebridgeFetch", status),
                !.call[c].pc = "done",
                !.call[c].outcome = IF ResOk(status) THEN "ok"
                                    ELSE HelperFailure("homebridgeFetch", status)]
    /\ UNCHANGED <<keychain, call, issued, sVars, inv, invoked, envelope, registry, oauth,
                   n8n>>

\* the promise settles; the slot is free for a later call
HbReturn(c) ==
    /\ hb.call[c].pc = "done"
    /\ hb' = [hb EXCEPT !.call[c] = IdleHb]
    /\ UNCHANGED <<keychain, call, issued, sVars, inv, invoked, tokenCache,
                   envelope, registry, oauth, n8n>>

HbStep(c) ==
    \/ HbStart(c)
    \/ \E ok \in BOOLEAN : HbSignInResponse(c, ok)
    \/ \E status \in ApiStatuses : HbResponse(c, status)
    \/ HbReturn(c)

HomekitSpec ==
    AtRest /\ [][(\E c \in Slots : HbStep(c)) \/ ClockAdvances]_vars

-----------------------------------------------------------------------------
(* The registry: loading and unloading the plugins *)

Plugins == {AllTools[i].plugin : i \in ToolIds}

\* the registered tools of other plugins that carry a name p also offers
Clashes(p) ==
    {<<i, j>> \in ToolsOf(p) \X registry.tools :
        AllTools[i].name = AllTools[j].name}

\* load(descriptor): the tools are registered unless one of their names is
\* taken, in which case the load is rejected with a CollisionError that names
\* both plugins and nothing is registered
Load(p) ==
    /\ p \notin registry.loaded
    /\ registry' =
         IF Clashes(p) = {}
         THEN [registry EXCEPT !.loaded = @ \cup {p}, !.tools = @ \cup ToolsOf(p)]
         ELSE [registry EXCEPT !.collisions =
                 @ \cup {<<p, AllTools[c[2]].plugin>> : c \in Clashes(p)}]
    /\ UNCHANGED <<keychain, call, issued, sVars, inv, invoked, tokenCache,
                   envelope, oauth, hb, n8n>>

\* unload(id): the plugin's tools leave the dispatch table
Unload(p) ==
    /\ p \in registry.loaded
    /\ registry' = [registry EXCEPT !.loaded = @ \ {p}, !.tools = @ \ ToolsOf(p)]
    /\ UNCHANGED <<keychain, call, issued, sVars, inv, invoked, tokenCache,
                   envelope, oauth, hb, n8n>>

RegistrySpec == AtRest /\ [][\E p \in Plugins : Load(p) \/ Unload(p)]_vars

-----------------------------------------------------------------------------
(* The X plugin's OAuth 1.0a signer, buildOAuthHeader.  A string is a sequence
   of tokens: a token is a run of letters, digits, '-', '.', '_' and '~', or
   one single other character *)

RECURSIVE Flatten(_)
Flatten(ss) == IF ss = << >> THEN << >> ELSE Head(ss) \o Flatten(Tail(ss))

\* the hexadecimal code of a character outside the unreserved set
Hex(ch) ==
    CASE ch = ":" -> "3A" [] ch = "/" -> "2F" [] ch = "&" -> "26"
      [] ch = "=" -> "3D" [] ch = "%" -> "25" [] ch = "+" -> "2B"
      [] ch = " " -> "20" [] ch = "," -> "2C" [] ch = "!" -> "21"

\* percent-encoding: RFC 3986 escapes everything but the unreserved
\* characters; encodeURIComponent leaves ! * ' ( ) alone as well
PercentEncode(str, rfc3986) ==
    Flatten([i \in 1..Len(str) |->
               IF \/ str[i] \in {":", "/", "&", "=", "%", "+", " ", ","}
                  \/ rfc3986 /\ str[i] = "!"
               THEN <<"%", Hex(str[i])>> ELSE <<str[i]>>])

EncodeURIComponent(str) == PercentEncode(str, FALSE)

\* PERCENT of the signer's description: encoding as RFC 3986 has it
Percent(str) == PercentEncode(str, TRUE)

\* method.toUpperCase()
ToUpperCase(method) ==
    CASE method = "post" -> "POST" [] method = "delete" -> "DELETE" [] OTHER -> method

\* the UTF-16 code units at the positions where the parameter names first
\* differ (positions 1, 7 and 8), which decide how Array.prototype.sort orders them
CodeUnits(k) ==
    CASE k = "oauth_consumer_key" -> <<111, 99, 111>>
      [] k = "oauth_nonce" -> <<111, 110, 111>>
      [] k = "oauth_signature_method" -> <<111, 115, 105>>
      [] k = "oauth_timestamp" -> <<111, 116, 105>>
      [] k = "oauth_token" -> <<111, 116, 111>>
      [] k = "oauth_version" -> <<111, 118, 101>>
      [] k = "include_entities" -> <<105, 101, 95>>
      [] k = "status" -> <<115, 0, 0>>

Before(a, b) ==
    LET x == CodeUnits(a)
        y == CodeUnits(b)
    IN  \/ x[1] < y[1]
        \/ x[1] = y[1] /\ x[2] < y[2]
        \/ x[1] = y[1] /\ x[2] = y[2] /\ x[3] < y[3]

\* a sort that puts the keys in descending order
RECURSIVE SortedKeys_Descending(_)
SortedKeys_Descending(S) ==
    IF S = {} THEN << >>
    ELSE LET last == CHOOSE k \in S : \A o \in S \ {k} : Before(o, k)
         IN  <<last>> \o SortedKeys_Descending(S \ {last})

\* Object.keys(allParams).sort()
RECURSIVE SortedKeys(_)
SortedKeys(S) ==
    IF S = {} THEN << >>
    ELSE LET first == CHOOSE k \in S : \A o \in S \ {k} : Before(k, o)
         IN  <<first>> \o SortedKeys(S \ {first})

\* keys.map(k => enc(k) + '=' + enc(params[k])).join('&')
ParamString(keys, params, rfc3986) ==
    Flatten([i \in 1..Len(keys) |->
               (IF i = 1 THEN << >> ELSE <<"&">>)
               \o PercentEncode(<<keys[i]>>, rfc3986) \o <<"=">>
               \o PercentEncode(params[keys[i]], rfc3986)])

\* the signed request of the X API documentation, from which the signature
\* tnnArxj06cWHq44gCs1OSKk/jLY= comes: its credentials, nonce and timestamp,
\* and the two request parameters that are in its signature base string
Example ==
    [url |-> <<"https", ":", "/", "/", "api.twitter.com", "/", "1", "/", "statuses",
               "/", "update.json">>,
     creds |-> [apiKey |-> <<"xvz1evFS4wEEPTGEFPHBog">>,
                apiSecret |-> <<"kAcSOqF21Fu85e7zjz7ZN2U4ZRhfV3WpwPAoE3Z7kBw">>,
                accessToken |-> <<"370773112-GmHxMAgYyLbNEtIKZeRNFsMKPR9EyMZeS9weJAEb">>,
                accessSecret |-> <<"LswwdoUaIvS8ltyTt5jkRh4J50vUPVVHtR2YPi5kE">>],
     nonce |-> <<"kYjzVBB8Y0ZFabxSWbWovY3uYSQ2pTgmZeNu2VS4cg">>,
     timestamp |-> <<"1318622958">>,
     requestParams |->
        [k \in {"include_entities", "status"} |->
            IF k = "include_entities" THEN <<"true">>
            ELSE <<"Hello", " ", "Ladies", " ", "+", " ", "Gentlemen", ",", " ", "a",
                   " ", "signed", " ", "OAuth", " ", "request", "!">>]]

\* the six protocol parameters buildOAuthHeader starts from
OauthParams(creds, nonce, timestamp) ==
    [k \in {"oauth_consumer_key", "oauth_nonce", "oauth_signature_method",
            "oauth_timestamp", "oauth_token", "oauth_version"} |->
        CASE k = "oauth_consumer_key" -> creds.apiKey
          [] k = "oauth_nonce" -> nonce
          [] k = "oauth_signature_method" -> <<"HMAC-SHA1">>
          [] k = "oauth_timestamp" -> timestamp
          [] k = "oauth_token" -> creds.accessToken
          [] k = "oauth_version" -> <<"1.0">>]

\* the key and the base string of the documented example, built as RFC 5849
\* builds them: the request parameters are signed with the protocol parameters
ExampleSigned ==
    LET six == OauthParams(Example.creds, Example.nonce, Example.timestamp)
        params == [k \in DOMAIN six \cup DOMAIN Example.requestParams |->
                     IF k \in DOMAIN six THEN six[k] ELSE Example.requestParams[k]]
    IN  [key |-> Percent(Example.creds.apiSecret) \o <<"&">>
                 \o Percent(Example.creds.accessSecret),
         base |-> <<"POST", "&">> \o Percent(Example.url) \o <<"&">>
                  \o Percent(ParamString(SortedKeys(DOMAIN params), params, TRUE))]

\* createHmac('sha1', key).update(base).digest('base64'): the digest of the
\* documented example is known; any other digest stands for itself, different
\* messages and keys having different digests
Base64HmacSha1(key, base) ==
    IF key = ExampleSigned.key /\ base = ExampleSigned.base
    THEN <<"tnnArxj06cWHq44gCs1OSKk", "/", "jLY", "=">>
    ELSE <<"hmac-sha1">> \o key \o <<"|">> \o base

\* buildOAuthHeader(method, url, creds), with the nonce and the timestamp it
\* draws; the result keeps the base string and the key for inspection
BuildOAuthHeaderResult(method, url, creds, nonce, timestamp) ==
    LET oauthParams == OauthParams(creds, nonce, timestamp)
        allParams == oauthParams
        sortedParams == ParamString(SortedKeys(DOMAIN allParams), allParams, FALSE)
        baseString == <<ToUpperCase(method), "&">> \o EncodeURIComponent(url)
                      \o <<"&">> \o EncodeURIComponent(sortedParams)
        signingKey == EncodeURIComponent(creds.apiSecret) \o <<"&">>
                      \o EncodeURIComponent(creds.accessSecret)
        signature == Base64HmacSha1(signingKey, baseString)
        headerKeys == <<"oauth_consumer_key", "oauth_nonce", "oauth_signature_method",
                        "oauth_timestamp", "oauth_token", "oauth_version",
                        "oauth_signature">>
        withSignature == [k \in DOMAIN oauthParams \cup {"oauth_signature"} |->
                            IF k = "oauth_signature" THEN signature ELSE oauthParams[k]]
    IN  [base |-> baseString, key |-> signingKey, signature |-> signature,
         header |-> [i \in 1..Len(headerKeys) |->
                       [k |-> EncodeURIComponent(<<headerKeys[i]>>),
                        v |-> EncodeURIComponent(withSignature[headerKeys[i]])]]]

\* the requests the X plugin signs, with the credentials the store may hold
OAuthInputs ==
    [method : {"POST", "DELETE", "post"},
     url : {Example.url, <<"https", ":", "/", "/", "api.x.com", "/", "2", "/", "tweets">>},
     creds : [apiKey : {Example.creds.apiKey, <<"key">>},
              apiSecret : {Example.creds.apiSecret, <<"secret">>},
              accessToken : {Example.creds.accessToken, <<"1-token">>},
              accessSecret : {Example.creds.accessSecret, <<"token_secret">>}]]
Nonces == {Example.nonce, <<"00112233445566778899aabbccddeeff">>}
Timestamps == {Example.timestamp, <<"1762214400">>}

\* xPost or the delete handler is about to call buildOAuthHeader
OAuthInit ==
    /\ Quiet
    /\ envelope = Idle.envelope /\ registry = Idle.registry /\ hb = Idle.hb
    /\ n8n = Idle.n8n
    /\ \E in \in OAuthInputs :
         oauth = [method |-> in.method, url |-> in.url, creds |-> in.creds,
                  signed |-> FALSE]

\* buildOAuthHeader runs: crypto.randomBytes gives the nonce, Date.now() the
\* timestamp
BuildOAuthHeader(nonce, timestamp) ==
    /\ ~oauth.signed
    /\ oauth' = [method |-> oauth.method, url |-> oauth.url, creds |-> oauth.creds,
                 signed |-> TRUE, nonce |-> nonce, timestamp |-> timestamp,
                 result |-> BuildOAuthHeaderResult(oauth.method, oauth.url,
                                                   oauth.creds, nonce, timestamp)]
    /\ UNCHANGED <<keychain, call, issued, sVars, inv, invoked, tokenCache,
                   envelope, registry, hb, n8n>>

OAuthSpec ==
    OAuthInit /\ [][\E nonce \in Nonces, timestamp \in Timestamps :
                       BuildOAuthHeader(nonce, timestamp)]_vars

-----------------------------------------------------------------------------
(* What each fetch helper makes of the response it receives *)

\* the helpers that receive a response, by plugin; "fetch" is a handler that
\* calls fetch() itself
FetchHelpers ==
    {<<"gcal", "calFetch">>, <<"gmail", "gmailFetch">>, <<"notion", "notionFetch">>,
     <<"slack", "slackFetch">>, <<"spotify", "spotifyFetch">>, <<"weather", "geocode">>,
     <<"weather", "fetch">>, <<"x", "xFetch">>, <<"x", "xPost">>, <<"x", "fetch">>,
     <<"github", "ghFetch">>, <<"n8n", "n8nFetch">>, <<"n8n", "webhookFetch">>,
     <<"homekit", "homebridgeFetch">>, <<"github_actions", "ghFetch">>,
     <<"gdrive", "driveFetch">>, <<"gdrive", "fetch">>, <<"vercel", "vercelFetch">>}

EnvelopeStatuses == {200, 202, 204, 401, 500}
\* the body is empty, JSON (served as application/json) or some other text
Bodies == {"empty", "json", "text"}

\* the statuses a helper answers with {} before it looks at the body
NoContentStatuses(p, h) ==
    CASE h = "spotifyFetch" -> {204, 202}
      [] h \in {"calFetch", "driveFetch", "vercelFetch", "n8nFetch", "homebridgeFetch"}
           -> {204}
      [] p = "github_actions" /\ h = "ghFetch" -> {204}
      [] OTHER -> {}

\* the weather plugin parses whatever comes back; every other helper throws on
\* a response that is not ok
ChecksOk(p, h) == p # "weather"

\* driveFetch and webhookFetch look at the content type before they parse
ReadsContentType(p, h) == h \in {"driveFetch", "webhookFetch"}

\* res.json() of a body
ResJson(body) == IF body = "json" THEN "parsed" ELSE "SyntaxError"

\* what the helper returns ("emptyObject", "parsed", "text", "wrappedText") or
\* throws ("ApiError", "SyntaxError") for a response
HelperResult(p, h, status, body) ==
    IF status \in NoContentStatuses(p, h) THEN "emptyObject"
    ELSE IF ChecksOk(p, h) /\ ~ResOk(status) THEN "ApiError"
    ELSE IF ReadsContentType(p, h) /\ body # "json"
         THEN (IF h = "webhookFetch" THEN "wrappedText" ELSE "text")
    ELSE ResJson(body)

\* a response has reached one of the helpers; a 204 has no body
EnvelopeInit ==
    /\ Quiet
    /\ registry = Idle.registry /\ oauth = Idle.oauth /\ hb = Idle.hb
    /\ n8n = Idle.n8n
    /\ \E ph \in FetchHelpers, status \in EnvelopeStatuses, body \in Bodies :
         /\ status = 204 => body = "empty"
         /\ envelope = [plugin |-> ph[1], helper |-> ph[2], status |-> status,
                        body |-> body, result |-> "pending"]

\* the helper returns or throws
HelperSettles ==
    /\ envelope.result = "pending"
    /\ envelope' = [envelope EXCEPT !.result =
                      HelperResult(envelope.plugin, envelope.helper,
                                   envelope.status, envelope.body)]
    /\ UNCHANGED <<keychain, call, issued, sVars, inv, invoked, tokenCache,
                   registry, oauth, hb, n8n>>

EnvelopeSpec == EnvelopeInit /\ [][HelperSettles]_vars

-----------------------------------------------------------------------------
(* Properties of the Spotify refresh machinery *)

\* spotify/refresh_token and spotify/client_id are both stored
RefreshCredsStored ==
    Truthy(keychain["spotify/refresh_token"]) /\ Truthy(keychain["spotify/client_id"])

\* call c has left refreshToken's two keychain reads behind
PastCredReads(c) == call[c].got401 /\ call[c].pc \notin {"rt_refresh", "rt_client"}

InRefresh(c) ==
    call[c].pc \in {"rt_refresh", "rt_client", "token", "rt_setAccess", "rt_setRefresh"}

C2_SingleFlightRefresh ==
    Cardinality({c \in Slots : call[c].pc = "token"}) <= 1

\* C6: the request re-sent after a refresh carries exactly the token that
\* refresh returned, and when the call completes that token is the stored one
C6_RetryCarriesRefreshedToken ==
    \A c \in Slots :
        /\ (Len(call[c].sent) = 2) => call[c].sent[2] = call[c].newToken
        /\ (call[c].pc = "done" /\ call[c].refresh = "issued") =>
               keychain["spotify/access_token"] = call[c].newToken

\* C7: every spotifyFetch call ends, after at most two API requests and at
\* most one token request; a 401 on the re-sent request starts no second
\* refresh and fails the call
C7_BoundedAndTerminates ==
    /\ [](\A c \in Slots :
            /\ Len(call[c].sent) <= 2
            /\ call[c].tokReqs <= 1
            /\ (Len(call[c].sent) = 2 /\ call[c].status = 401) =>
                   (call[c].pc = "done" /\ call[c].outcome = "ApiError"))
    /\ \A c \in Slots : (call[c].pc # "idle") ~> (call[c].pc = "done")

C7_Witness ==
    \E c \in Slots :
        /\ call[c].pc = "done" /\ Len(call[c].sent) = 2 /\ call[c].status = 401
        /\ call[c].tokReqs = 1 /\ call[c].outcome = "ApiError"

\* C8: when every token response rotates the refresh token, then once no
\* refresh is in progress the stored access_token and refresh_token come from
\* one and the same token response
C8_RotationAtomic ==
    ((\A c \in Slots : ~InRefresh(c)) /\ ~plainOnly /\ issued > 0) =>
        \E n \in 1..issued : /\ keychain["spotify/access_token"] = AccessOf(n)
                             /\ keychain["spotify/refresh_token"] = RefreshOf(n)

\* C9: a 401 while refresh_token or client_id is missing sends nothing to the
\* token endpoint, does not re-send the request, ends the call AuthExpired,
\* and no step changes the keychain
C9_NoCredsNoRefresh ==
    /\ [](\A c \in Slots :
            (call[c].got401 /\ ~RefreshCredsStored) =>
                /\ call[c].tokReqs = 0
                /\ Len(call[c].sent) = 1
                /\ PastCredReads(c) =>
                       (call[c].pc = "done" /\ call[c].outcome = "AuthExpired"))
    /\ [][~RefreshCredsStored => keychain' = keychain]_vars

C9_Witness ==
    \E c \in Slots :
        /\ call[c].got401 /\ ~RefreshCredsStored
        /\ call[c].pc = "done" /\ call[c].outcome = "AuthExpired"
        /\ call[c].tokReqs = 0 /\ Len(call[c].sent) = 1

\* C19: refreshToken writes spotify/access_token exactly when the token
\* endpoint answered 2xx with an access_token, writes spotify/refresh_token
\* only when that answer also carried a refresh_token, and after any other
\* answer returns null with both records as they were
C19_RefreshWritesOnlyWhatWasIssued ==
    [][ /\ keychain'["spotify/access_token"] # keychain["spotify/access_token"] =>
              \E c \in Slots : /\ call[c].pc = "rt_setAccess"
                               /\ call[c].refresh = "issued"
                               /\ keychain'["spotify/access_token"] = call[c].data.access
        /\ keychain'["spotify/refresh_token"] # keychain["spotify/refresh_token"] =>
              \E c \in Slots : /\ call[c].pc = "rt_setRefresh"
                               /\ call[c].refresh = "issued"
                               /\ Truthy(call[c].data.refresh)
                               /\ keychain'["spotify/refresh_token"] = call[c].data.refresh
        /\ \A c \in Slots :
              /\ (call[c].pc = "rt_setAccess" /\ call'[c] # call[c]) =>
                    /\ keychain'["spotify/access_token"] = call[c].data.access
                    /\ call'[c].pc = "rt_setRefresh" <=> Truthy(call[c].data.refresh)
              /\ (call[c].pc = "rt_setRefresh" /\ call'[c] # call[c]) =>
                    keychain'["spotify/refresh_token"] = call[c].data.refresh
              /\ (call[c].pc = "token" /\ call'[c].refresh = "refused") =>
                    /\ keychain' = keychain
                    /\ call'[c].newToken = Absent
                    /\ call'[c].pc = "done"
      ]_vars

\* a refresh has stored a new access token whose response carried no
\* refresh_token: the stored refresh token is still the original one
C19_Witness ==
    /\ keychain["spotify/access_token"] = AccessOf(1)
    /\ keychain["spotify/refresh_token"] = RefreshOf(0)
    /\ \E c \in Slots : call[c].newToken = AccessOf(1) /\ call[c].refresh = "issued"

-----------------------------------------------------------------------------
(* Properties of dispatch, approval and the requests the handlers send *)

\* a request of the running handler is on the wire
RequestInFlight ==
    \/ inv.pc = "wait"
    \/ inv.pc = "spotify" /\ call[1].pc = "api"

\* C3: no handler of a tool without requiresApproval = true ever has a
\* state-changing request on the wire
C3_WritesNeedApproval ==
    (RequestInFlight /\ TheSite.mutates) => TheTool.requiresApproval

\* the tools declared with requiresApproval: true
ApprovalTools ==
    {"x_post_tweet", "x_delete_tweet", "x_like_tweet", "slack_send_message",
     "slack_add_reaction", "homekit_set", "homekit_toggle"}

\* C4: for each of the seven tools declared with requiresApproval, the handler
\* runs and requests go out only once the approval callback has approved; a
\* denied invocation never reaches the handler and sends nothing
C4_DeniedNeverRuns ==
    (inv.tool \in ToolIds /\ TheTool.name \in ApprovalTools) =>
        /\ inv.handler => inv.approval = "approved"
        /\ inv.http > 0 => inv.approval = "approved"
        /\ inv.approval = "denied" =>
              (~inv.handler /\ inv.http = 0 /\ inv.outcome = "Denied")

C4_Witness ==
    /\ inv.tool \in ToolIds
    /\ TheTool.name \in ApprovalTools
    /\ inv.pc = "done"
    /\ inv.approval = "denied"
    /\ inv.outcome = "Denied"

\* C5: a request with a non-idempotent method is never on the wire for the
\* second time within one call of a helper without a token refresh
C5_WritesSentOnce ==
    (inv.pc = "wait" /\ TheSite.method # "GET") => inv.sends <= 1

\* the credentials the handler of tool t asks the keychain for
ToolKeys(t) ==
    UNION {UNION {HelperKeys(AllTools[t].plugin, path[j].helper) :
                    j \in 1..Len(path)} : path \in AllTools[t].variants}

CredsAbsent ==
    /\ inv.tool \in ToolIds
    /\ \E k \in ToolKeys(inv.tool) : ~Truthy(keychain[k])

-----------------------------------------------------------------------------
(* Properties of the credentials the plugins read and write *)

\* C11: whatever was set or deleted on google/access_token before, a request
\* sent by gmail, gcal or gdrive carries the value stored at that moment, and
\* with no value stored the call fails with the not-authenticated error
\* before any request is sent
C11_GoogleTokenShared ==
    [][ LET google == TheTool.plugin \in {"gmail", "gcal", "gdrive"}
            sends == inv.pc = "site" /\ inv'.pc = "wait" /\ google
            calledUnauthenticated ==
                /\ AtSite(PlainHelpers) /\ inv' # inv /\ google
                /\ ~Truthy(keychain["google/access_token"])
        IN  /\ sends => /\ Truthy(keychain["google/access_token"])
                        /\ inv'.bearer = keychain["google/access_token"]
            /\ calledUnauthenticated =>
                  /\ inv'.http = inv.http
                  /\ inv'.pc # "wait"
                  /\ TheSite.mode = "await" =>
                        inv'.pc = "done" /\ inv'.outcome = "ConfigError" ]_vars

\* a Google plugin has a request in flight that carries a token stored by a
\* set that came after start-up
C11_Witness ==
    /\ inv.pc = "wait"
    /\ TheTool.plugin = "gdrive"
    /\ inv.bearer = Reissued

\* C13: plugins read the keychain and never write it: no step of a tool call
\* changes a record
C13_PluginsNeverWrite == [][keychain' = keychain]_vars

\* C14: a plugin reads no record of another plugin's namespace: the service of
\* every record a helper has read is the plugin's name or a service declared
\* in the plugin's configSchema
C14_ReadsOwnNamespace ==
    inv.pc = "wait" =>
        \A k \in HelperKeys(TheTool.plugin, TheSite.helper) :
            ServiceOf(k) \in {TheTool.plugin} \cup DeclaredServices(TheTool.plugin)

-----------------------------------------------------------------------------
(* Properties of the HomeKit token cache *)

-----------------------------------------------------------------------------
(* Properties of the registry *)

\* C15: no two tools of the thirteen plugins have the same name, so in
\* whatever order the plugins are loaded no load is rejected with a
\* CollisionError and every loaded plugin has all its tools registered
C15_ToolNamesUnique ==
    /\ \A i, j \in ToolIds : AllTools[i].name = AllTools[j].name => i = j
    /\ registry.collisions = {}
    /\ registry.tools = UNION {ToolsOf(p) : p \in registry.loaded}

\* all thirteen plugins are loaded and all their tools are registered
C15_Witness ==
    /\ Cardinality(registry.loaded) = 13
    /\ Cardinality({AllTools[i].name : i \in registry.tools}) = 105

-----------------------------------------------------------------------------
(* Properties of the OAuth 1.0a signer *)

C18_ExampleSignature ==
    ( /\ oauth.signed
      /\ oauth.method = "POST" /\ oauth.url = Example.url /\ oauth.creds = Example.creds
      /\ oauth.nonce = Example.nonce /\ oauth.timestamp = Example.timestamp )
    => oauth.result.signature = <<"tnnArxj06cWHq44gCs1OSKk", "/", "jLY", "=">>

-----------------------------------------------------------------------------
(* Properties of the HTTP call envelope *)

\* C12: whichever helper receives it, a 2xx response gives a payload and not
\* an error: {} for an empty 204 or 202, the parsed value for a JSON body, the
\* text for any other body
C12_SuccessIsNeverAnError ==
    (envelope.result # "pending" /\ ResOk(envelope.status)) =>
        /\ envelope.result \notin {"ApiError", "SyntaxError"}
        /\ (envelope.body = "empty" /\ envelope.status \in {202, 204}) =>
              envelope.result = "emptyObject"
        /\ envelope.body = "json" => envelope.result = "parsed"
        /\ envelope.body = "text" => envelope.result \in {"text", "wrappedText"}

-----------------------------------------------------------------------------
(* n8n: executions as the API reports them, and n8n_trigger waiting for one *)

\* for (let i = 0; i < 15; i++)
MaxPolls == 15

\* the two fields of an upstream execution the plugin looks at; "absent" is
\* a status field that is missing (undefined) in the JSON
Executions == [finished : BOOLEAN, status : {"absent", "error", "success", "running"}]

\* what `await this.n8nFetch(...).catch(() => null)` leaves in exec: null
\* when the request failed, the parsed execution otherwise
PollResults ==
    {[null |-> TRUE, finished |-> FALSE, status |-> "absent"]}
        \cup {[null |-> FALSE, finished |-> e.finished, status |-> e.status] :
                e \in Executions}

\* exec?.finished || exec?.status === 'error'
PollSettles_FinishedOnly(exec) == ~exec.null /\ exec.finished
PollSettles(exec) == ~exec.null /\ (exec.finished \/ exec.status = "error")

\* formatExecution, its status field:
\*   status: e.status ?? e.finished ? 'success' : 'running'
\* `??` binds tighter than `? :`, so the whole of (e.status ?? e.finished)
\* is the condition of the conditional; a status string is truthy
FormatExecution(e) ==
    LET coalesced == IF e.status # "absent" THEN TRUE ELSE e.finished
    IN  [status |-> IF coalesced THEN "success" ELSE "running"]

\* n8n_trigger on a workflow without a webhook, just after POST
\* /workflows/{id}/run has answered: waitForResult and whether the answer
\* carries data.executionId are the inputs
PollInit ==
    /\ Quiet
    /\ envelope = Idle.envelope /\ registry = Idle.registry /\ oauth = Idle.oauth
    /\ hb = Idle.hb
    /\ n8n \in [pc : {"ran"}, waitForResult : BOOLEAN, execId : BOOLEAN,
                i : {0}, polls : {0}, ignored : {0},
                exec : {[null |-> TRUE, finished |-> FALSE, status |-> "absent"]},
                returned : {"none"}, execution : {[status |-> "none"]}]

\* if (waitForResult) { if (execId) { for (...) ... } } return {triggered ...}:
\* entering the loop, its head, the 2 s timer and the GET it is followed by
TriggerLoop ==
    /\ n8n.pc \in {"ran", "loop"}
    /\ IF n8n.waitForResult /\ n8n.execId /\ n8n.i < MaxPolls
       THEN n8n' = [n8n EXCEPT !.pc = "poll", !.polls = @ + 1]
       ELSE n8n' = [n8n EXCEPT !.pc = "done", !.returned = "trigger"]
    /\ UNCHANGED <<keychain, call, issued, sVars, inv, invoked, tokenCache,
                   envelope, registry, oauth, hb>>

\* the GET /executions/{execId} settles: a rejection is caught and leaves
\* null, a settled execution is returned formatted, anything else is i++
PollAnswer(exec) ==
    /\ n8n.pc = "poll"
    /\ IF PollSettles(exec)
       THEN n8n' = [n8n EXCEPT !.pc = "done", !.exec = exec,
                               !.returned = "execution",
                               !.execution = FormatExecution(exec)]
       ELSE n8n' = [n8n EXCEPT !.pc = "loop", !.exec = exec, !.i = @ + 1,
                               !.ignored = IF exec.null THEN @ + 1 ELSE @]
    /\ UNCHANGED <<keychain, call, issued, sVars, inv, invoked, tokenCache,
                   envelope, registry, oauth, hb>>

\* the timer fires and every request settles, one way or the other
PollFairSpec ==
    /\ PollInit
    /\ [][TriggerLoop \/ \E exec \in PollResults : PollAnswer(exec)]_vars
    /\ WF_vars(TriggerLoop \/ \E exec \in PollResults : PollAnswer(exec))

-----------------------------------------------------------------------------
(* n8n_executions: the listing the API answers with, formatted and counted *)

MaxExecutions == 2

\* GET /executions has answered with a list of executions
ExecInit ==
    /\ Quiet
    /\ envelope = Idle.envelope /\ registry = Idle.registry /\ oauth = Idle.oauth
    /\ hb = Idle.hb
    /\ \E len \in 0..MaxExecutions :
          n8n \in [pc : {"fetched"}, executions : [1..len -> Executions],
                   formatted : {<< >>}, errors : {0}]

\* formatted = executions.map(formatExecution);
\* errors = formatted.filter((e) => e.status === 'error').length
N8nExecutions ==
    /\ n8n.pc = "fetched"
    /\ LET formatted == [i \in DOMAIN n8n.executions |->
                            FormatExecution(n8n.executions[i])]
       IN  n8n' = [n8n EXCEPT
                     !.pc = "returned",
                     !.formatted = formatted,
                     !.errors = Cardinality({i \in DOMAIN formatted :
                                               formatted[i].status = "error"})]
    /\ UNCHANGED <<keychain, call, issued, sVars, inv, invoked, tokenCache,
                   envelope, registry, oauth, hb>>

ExecSpec == ExecInit /\ [][N8nExecutions]_vars

-----------------------------------------------------------------------------
(* Properties of the n8n plugin's handlers *)

\* C21: n8n_trigger with waitForResult on a workflow without a webhook
\* returns: it sends at most 15 polls, returns the formatted execution at the
\* first poll that reports finished or status 'error', returns the plain
\* trigger result after the 15th poll otherwise, and a failed poll counts as
\* a poll that reported nothing
C21_TriggerWaitTerminates ==
    LET settled(e) == ~e.null /\ (e.finished \/ e.status = "error")
    IN  /\ [](/\ n8n.polls <= MaxPolls
              /\ n8n.ignored <= n8n.polls
              /\ n8n.pc = "loop" => ~settled(n8n.exec) /\ n8n.polls = n8n.i
              /\ n8n.pc = "done" =>
                    /\ n8n.returned \in {"execution", "trigger"}
                    /\ n8n.returned = "execution" =>
                          /\ settled(n8n.exec)
                          /\ n8n.execution = FormatExecution(n8n.exec)
                    /\ n8n.returned = "trigger" =>
                          /\ ~settled(n8n.exec)
                          /\ n8n.polls = IF n8n.waitForResult /\ n8n.execId
                                         THEN MaxPolls ELSE 0)
        /\ <>(n8n.pc = "done")

\* fifteen polls, several of them failed requests, and the plain result
C21_Witness ==
    /\ n8n.pc = "done" /\ n8n.returned = "trigger"
    /\ n8n.polls = MaxPolls /\ n8n.ignored >= 2 /\ n8n.ignored < MaxPolls

\* C27: a formatted execution carries the upstream status when there is one,
\* 'success' / 'running' by the finished flag otherwise, and the errors count
\* of n8n_executions is the number of listed executions whose upstream status
\* is 'error'
C27_StatusIsUpstreamStatus ==
    n8n.pc = "returned" =>
        /\ \A i \in DOMAIN n8n.executions :
              n8n.formatted[i].status =
                  IF n8n.executions[i].status # "absent"
                  THEN n8n.executions[i].status
                  ELSE IF n8n.executions[i].finished THEN "success" ELSE "running"
        /\ n8n.errors = Cardinality({i \in DOMAIN n8n.executions :
                                       n8n.executions[i].status = "error"})

-----------------------------------------------------------------------------
(* Properties of the Vercel team scope and of the X plugin's signed posts *)

\* C22: after vercel_set_team(t) with a non-empty t the Vercel requests carry
\* the query parameter teamId = t, after vercel_set_team('') they carry no
\* teamId parameter, and this lasts until the next vercel_set_team: a request
\* carries the stored team id when there is one, vercel_set_team stores what
\* makes the next request carry t (or nothing), and no other step of the
\* plugin changes the record
C22_TeamScopeFollowsSetTeam ==
    [][ LET stored == keychain["vercel/team_id"]
            carried(v) == IF v = Absent \/ v = Empty THEN Absent ELSE v
            sent == /\ inv.pc = "site" /\ inv'.pc = "wait"
                    /\ TheTool.plugin = "vercel"
            teams == {Configured, Reissued, Empty}
        IN  /\ sent => inv'.teamId = carried(stored)
            /\ \A t \in teams :
                  VercelSetTeam(t) =>
                      carried(keychain'["vercel/team_id"]) =
                          (IF t = Empty THEN Absent ELSE t)
            /\ keychain'["vercel/team_id"] # stored =>
                  \/ \E t \in teams : VercelSetTeam(t)
                  \/ StoreDelete("vercel/team_id")
      ]_vars

\* after vercel_set_team('') a Vercel request is in flight without teamId
C22_Witness ==
    /\ inv.pc = "wait"
    /\ TheSite.helper = "vercelFetch"
    /\ keychain["vercel/team_id"] = Empty
    /\ inv.teamId = Absent
    /\ invoked = 2

\* C26: within one xPost call the OAuth header is computed once, before
\* withRetry runs: a later attempt sends the header of the first attempt,
\* and a call starts without a header and signs for itself
C26_HeaderSignedOncePerCall ==
    [][ LET posting(rec) == rec.pc = "wait" /\ rec.path[rec.site].helper = "xPost"
        IN  /\ (posting(inv) /\ posting(inv')) =>
                  /\ inv'.header = inv.header
                  /\ inv' # inv => inv'.sends = inv.sends + 1
            /\ posting(inv') => inv'.header # 0
            /\ (~posting(inv) /\ posting(inv')) => inv.header = 0 /\ inv'.sends = 1
            /\ ~posting(inv') => inv'.header = 0
      ]_vars

\* the second attempt of an xPost call is in flight
C26_Witness ==
    /\ inv.pc = "wait"
    /\ TheSite.helper = "xPost"
    /\ inv.sends = 2
    /\ inv.header = 2

\* C23: x_post_tweet with a text longer than 280 returns its error payload
\* without reading a credential and without a request: its handler walks the
\* branch that has no helper call and returns; a text of exactly 280 goes to
\* xPost
C23_TooLongTweetNeverSent ==
    (inv.tool # 0 /\ inv.handler /\ TheTool.name = "x_post_tweet") =>
        /\ inv.text > 280 =>
              /\ inv.path = << >>
              /\ inv.http = 0 /\ inv.failed = "none"
              /\ inv.pc = "done" => inv.outcome = "ok"
        /\ inv.text <= 280 =>
              inv.path = <<Req("xPost", "POST", TRUE)>>

\* a tweet of exactly 280 is on its way to the API
C23_Witness ==
    /\ inv.tool # 0 /\ TheTool.name = "x_post_tweet"
    /\ inv.text = 280
    /\ inv.pc = "wait" /\ inv.sends = 1

-----------------------------------------------------------------------------
(* Properties of the credential checks *)

\* C24: a call of a credentialed helper (gmail, gcal, gdrive, github_actions,
\* notion, slack, spotify, vercel, x, homekit, n8n through the n8n API) that
\* finds the credential it needs absent throws its configuration error
\* before a request goes out, and the handler fails with it: no step of such
\* a call sends anything, and no handler returns normally with a credential
\* of a call on its path absent
C24_NoRequestWithoutCredential ==
    [][ LET needs(p, h) ==
                CASE p \in {"gmail", "gcal", "gdrive"} -> {"google/access_token"}
                  [] p = "github_actions" -> {"github/token"}
                  [] p = "notion" -> {"notion/api_key"}
                  [] p = "slack" -> {"slack/bot_token"}
                  [] p = "spotify" -> {"spotify/access_token"}
                  [] p = "vercel" /\ h # "keychain.set" -> {"vercel/token"}
                  [] p = "x" /\ h = "xFetch" -> {"x/bearer_token"}
                  [] p = "x" /\ h # "xFetch" ->
                        {"x/api_key", "x/api_secret", "x/access_token",
                         "x/access_secret"}
                  [] p = "homekit" ->
                        {"homekit/base_url", "homekit/username", "homekit/password"}
                  [] p = "n8n" /\ h # "webhookFetch" -> {"n8n/api_key"}
                  [] OTHER -> {}
            absent(p, h) == \E k \in needs(p, h) : keychain[k] \in {Absent, Empty}
            calling == inv.pc = "site" /\ inv.site <= Len(inv.path) /\ inv' # inv
        IN  /\ (calling /\ TheSite.helper # "spotifyFetch"
                  /\ absent(TheTool.plugin, TheSite.helper)) =>
                  /\ inv'.http = inv.http
                  /\ inv'.pc \in {"site", "done"}
                  /\ TheSite.mode = "await" =>
                        inv'.pc = "done" /\ inv'.outcome = "ConfigError"
            /\ (inv.pc = "spotify" /\ call[1].pc = "start" /\ call' # call
                  /\ absent("spotify", "spotifyFetch")) =>
                  /\ call'[1].pc = "done"
                  /\ call'[1].outcome = "NotAuthenticated"
                  /\ call'[1].sent = << >>
            /\ (inv.pc = "site" /\ inv'.pc = "done" /\ inv'.outcome = "ok") =>
                  \A j \in 1..Len(inv.path) :
                      ~absent(TheTool.plugin, inv.path[j].helper)
      ]_vars

\* homekit_status has seen both its homebridgeFetch calls throw for want of
\* a credential, has sent nothing, and has failed in getCredentials
C24_Witness ==
    /\ inv.tool # 0 /\ TheTool.name = "homekit_status"
    /\ inv.pc = "done" /\ inv.outcome = "ConfigError"
    /\ inv.site = 3
    /\ inv.http = 0

-----------------------------------------------------------------------------
(* Properties of the HomeKit sign-in *)

\* C25: a homebridgeFetch call sends its API request with the cached token,
\* and without a sign-in, only while the token has more than five minutes
\* left; with less left, or with an empty cache, it first signs in with the
\* credentials the keychain holds, and its API request goes out only after
\* the sign-in has filled the cache
C25_CachedTokenOnlyWhileFresh ==
    [][ LET calling == /\ inv.pc = "site" /\ inv.site <= Len(inv.path)
                       /\ TheSite.helper = "homebridgeFetch" /\ inv' # inv
            configured == \A k \in HomekitKeys : keychain[k] \notin {Absent, Empty}
        IN  /\ (calling /\ configured /\ tokenCache = "fresh") =>
                  inv'.pc = "wait" /\ inv'.http = inv.http + 1
            /\ (calling /\ tokenCache # "fresh") => inv'.pc # "wait"
            /\ (calling /\ configured /\ tokenCache # "fresh") => inv'.pc = "signin"
            /\ (inv.pc # "signin" /\ inv'.pc = "signin") =>
                  calling /\ configured /\ tokenCache # "fresh"
            /\ (inv.pc = "signin" /\ inv'.pc = "wait") => tokenCache' = "fresh"
            /\ (calling /\ inv'.pc = "wait") => tokenCache = "fresh"
      ]_vars

\* a call that found the cached token within five minutes of its expiry is
\* signing in
C25_Witness ==
    /\ inv.pc = "signin"
    /\ tokenCache = "stale"
    /\ inv.site = 2

-----------------------------------------------------------------------------
(* Properties of the Google plugins' answer to 401 *)

\* C28: in gmail, gcal and gdrive a 401 from the Google API ends the call
\* with the token-expired error after exactly one request: nothing is sent
\* again, no refresh is tried and the keychain stays as it is
C28_Google401EndsCall ==
    [][ (/\ inv.pc = "wait"
         /\ TheTool.plugin \in {"gmail", "gcal", "gdrive"}
         /\ HelperResponse(401)) =>
            /\ inv.sends = 1
            /\ inv'.http = inv.http
            /\ inv'.pc # "wait"
            /\ keychain' = keychain
            /\ (TheSite.mode = "await" /\ inv.failed = "none") =>
                  inv'.pc = "done" /\ inv'.outcome = "AuthExpired"
      ]_vars

-----------------------------------------------------------------------------
(* Properties of the github plugin *)

-----------------------------------------------------------------------------
(* Invocations one after the other on the same plugin instances *)

MaxFrameCalls == 2

\* the dispatcher serves a second invocation on the instances, the keychain
\* and the token cache the first one left behind
FrameSpec ==
    Init /\ [][(\E t \in ToolIds : InvokeWithin(t, MaxFrameCalls)) \/ Next]_vars

-----------------------------------------------------------------------------
(* Properties of the state the invocations share *)

=============================================================================
